---- MODULE Spec2Model ----
(* State-machine model of examples/workforce/eigent_browser.py: the module  *)
(* level WORKING_DIRECTORY assignment, send_message_to_user, the two agent  *)
(* factories and the coroutine main().  Strings are sequences of tokens,    *)
(* framework objects are records, and every framework call is a step that   *)
(* either returns or raises.                                                *)
EXTENDS Integers, Sequences, FiniteSets, TLC

VARIABLES
    environ,                \* os.environ, restricted to CAMEL_WORKDIR
    cwd,                    \* the process's current directory
    fs,                     \* the file system: absolute path -> "absent" | "dir" | "file"
    run,                    \* number of the current execution of the script
    pc,                     \* position of the script / of main()
    error,                  \* the exception main() ended with ("" when none)
    WORKING_DIRECTORY,      \* module global, line 39
    makedirs_arg,           \* the argument os.makedirs was called with
    makedirs_found,         \* what os.makedirs found at that path ("" before the call)
    msg_toolkit,            \* main: msg_toolkit
    next_id,                \* allocator of object identities
    model_backend_search,   \* main: model_backend_search
    model_backend_planning, \* main: model_backend_planning
    web_toolkit_custom,     \* search_agent_factory: web_toolkit_custom
    search_agent,           \* main: search_agent
    task_agent,             \* main: task_agent
    communication_tools,    \* main: communication_tools
    have_tools,             \* whether communication_tools has been assigned
    loop_i,                 \* index into [task_agent, search_agent], line 364
    loop_j,                 \* index into communication_tools, line 365
    workforce,              \* main: workforce
    human_task,             \* main: human_task
    calls,                  \* the framework/library calls made so far, in order
    stdout,                 \* what main() has printed so far
    suspends,               \* how many times main() has suspended at an await
    resumed,                \* how many awaits of main() have completed
    msg_pc,                 \* send_message_to_user: "idle" | "ready" | "returned"
    msg_in,                 \* send_message_to_user: its three arguments
    msg_ret,                \* send_message_to_user: its return value
    msg_printed,            \* send_message_to_user: the print() calls it made
    msg_reads               \* send_message_to_user: reads of standard input

mainVars == <<environ, cwd, fs, run, pc, error, WORKING_DIRECTORY, makedirs_arg,
              makedirs_found, msg_toolkit, next_id, model_backend_search,
              model_backend_planning,
              web_toolkit_custom, search_agent, task_agent, communication_tools,
              have_tools, loop_i, loop_j, workforce, human_task, calls, stdout,
              suspends, resumed>>
msgVars == <<msg_pc, msg_in, msg_ret, msg_printed, msg_reads>>
vars == <<mainVars, msgVars>>

-----------------------------------------------------------------------------
(* Bounds of the model. *)
MaxRuns == 2
MaxCommTools == 2
MaxKpis == 1
MaxLen == 2

-----------------------------------------------------------------------------
(* Paths and the environment. A path is a sequence of tokens, "/" being the *)
(* separator.                                                               *)

Sep == "/"

\* The literal "working_dir/" of line 40.
DefaultRelPath == <<"working_dir", Sep>>

\* The values CAMEL_WORKDIR takes in the model: the empty string and an
\* absolute path with a trailing separator.
WorkdirValues == { <<>>, <<Sep, "data", Sep>> }

\* os.environ with CAMEL_WORKDIR unset, or set to one of WorkdirValues.
Environs == { <<>> } \cup { << v >> : v \in WorkdirValues }

Cwds == { <<Sep>>, <<Sep, "home">> }

\* os.environ.get("CAMEL_WORKDIR"): <<>> is None, << v >> is the string v.
EnvironGet(env) == env

\* Python truthiness of an optional string: None and "" are falsy.
Truthy(opt) == opt # <<>> /\ opt[1] # <<>>

\* os.path.normpath on a path without "." and "..": empty components vanish.
Components(p) == SelectSeq(p, LAMBDA t : t # Sep)

RECURSIVE JoinComponents(_)
JoinComponents(cs) ==
    IF cs = <<>> THEN <<>> ELSE <<Sep, Head(cs)>> \o JoinComponents(Tail(cs))

normpath(p) == IF Components(p) = <<>> THEN <<Sep>> ELSE JoinComponents(Components(p))

isabs(p) == p # <<>> /\ Head(p) = Sep

\* os.path.abspath(p) in current directory c: normpath(join(c, p)).
abspath(c, p) == IF isabs(p) THEN normpath(p) ELSE normpath(c \o <<Sep>> \o p)

\* Line 39: os.environ.get("CAMEL_WORKDIR") or os.path.abspath("working_dir/").
WorkingDirectoryIfSet(env, c) ==
    IF EnvironGet(env) # <<>> THEN EnvironGet(env)[1] ELSE abspath(c, DefaultRelPath)
WorkingDirectory(env, c) ==
    IF Truthy(EnvironGet(env)) THEN EnvironGet(env)[1] ELSE abspath(c, DefaultRelPath)

\* The absolute paths a run can name as its working directory.
FsPaths == { abspath(c, WorkingDirectory(e, c)) : e \in Environs, c \in Cwds }

-----------------------------------------------------------------------------
(* Framework objects. *)

NoAgent == [exists |-> FALSE, role_name |-> "", model |-> 0, tools |-> <<>>,
            prompt_workdir |-> <<>>]
NoToolkit == [exists |-> FALSE, enabled_tools |-> <<>>, cache_dir |-> <<>>]
NoHub == [exists |-> FALSE, max_message_history |-> 0, agents |-> <<>>]
NoWorkforce == [exists |-> FALSE, task_agent |-> "", workers |-> <<>>,
                submitted |-> <<>>, dumps |-> <<>>]
NoTask == [exists |-> FALSE, id |-> ""]

\* Lines 111-122.
custom_tools == <<"browser_open", "browser_close", "browser_back", "browser_forward",
                  "browser_click", "browser_type", "browser_enter",
                  "browser_switch_tab", "browser_visit_page",
                  "browser_get_som_screenshot">>

\* Lines 139-142: the browser toolkit's tools and the human console tool.
SearchTools(toolkit) == toolkit.enabled_tools \o <<"ask_human_via_console">>

\* Lines 264-267: the planning toolkit's tools and the human console tool.
PlanningTools == <<"decompose_task", "replan_tasks", "ask_human_via_console">>

\* The tools the search agent's prompt names in backquotes, lines 202-227.
SearchPromptTools == {"browser_visit_page", "browser_click", "browser_back",
                      "browser_forward", "browser_switch_tab",
                      "browser_get_som_screenshot", "browser_type",
                      "browser_enter", "search_exa"}

\* The tools a messaging hub hands out; get_tools() returns some of them.
CommToolNames == {"send_message", "broadcast_message", "list_available_agents"}

Range(s) == { s[i] : i \in 1..Len(s) }

\* The sequences over S of length at most n that repeat no element.
RECURSIVE SeqsNoDup(_, _)
SeqsNoDup(S, n) ==
    IF n = 0 THEN { <<>> }
    ELSE LET prev == SeqsNoDup(S, n - 1)
         IN  prev \cup { Append(p[1], p[2]) :
                           p \in { q \in prev \X S : q[2] \notin Range(q[1]) } }

RECURSIVE Count(_, _)
Count(s, x) ==
    IF s = <<>> THEN 0 ELSE (IF Head(s) = x THEN 1 ELSE 0) + Count(Tail(s), x)

\* Position of the first occurrence of x in s, 0 when there is none.
Pos(s, x) ==
    IF x \in Range(s) THEN CHOOSE i \in 1..Len(s) : s[i] = x /\ \A k \in 1..(i - 1) : s[k] # x
    ELSE 0

Last(s) == s[Len(s)]

-----------------------------------------------------------------------------
(* The initial state: a fresh process, before line 39 has run. *)

InitProcess ==
    /\ pc = "import"
    /\ error = ""
    /\ WORKING_DIRECTORY = <<>>
    /\ makedirs_arg = <<>>
    /\ makedirs_found = ""
    /\ msg_toolkit = NoHub
    /\ next_id = 1
    /\ model_backend_search = 0
    /\ model_backend_planning = 0
    /\ web_toolkit_custom = NoToolkit
    /\ search_agent = NoAgent
    /\ task_agent = NoAgent
    /\ communication_tools = <<>>
    /\ have_tools = FALSE
    /\ loop_i = 1
    /\ loop_j = 1
    /\ workforce = NoWorkforce
    /\ human_task = NoTask
    /\ calls = <<>>
    /\ stdout = <<>>
    /\ suspends = 0
    /\ resumed = 0

InitMain ==
    /\ environ \in Environs
    /\ cwd \in Cwds
    /\ fs \in [FsPaths -> {"absent", "dir", "file"}]
    /\ run = 1
    /\ InitProcess

MsgIdle ==
    /\ msg_pc = "idle"
    /\ msg_in = <<>>
    /\ msg_ret = <<>>
    /\ msg_printed = <<>>
    /\ msg_reads = 0

Init == InitMain /\ MsgIdle

-----------------------------------------------------------------------------
(* How a call of main() ends: it returns and main() goes on to `next`, or   *)
(* it raises and, nothing in the file catching anything, main() ends.       *)

Return(next) ==
    /\ pc' = next
    /\ UNCHANGED error

RaiseCaught(fn) ==
    /\ pc' = IF fn = "process_task_async" THEN "log_tree" ELSE "failed"
    /\ error' = fn

Raise(fn) ==
    /\ pc' = "failed"
    /\ error' = fn

\* Line 39, run when the module is loaded.
ReadEnviron ==
    /\ pc = "import"
    /\ WORKING_DIRECTORY' = WorkingDirectory(environ, cwd)
    /\ calls' = Append(calls, "os.environ.get")
    /\ Return("makedirs")
    /\ UNCHANGED <<environ, cwd, fs, run, makedirs_arg, makedirs_found, msg_toolkit,
                   next_id,
                   model_backend_search, model_backend_planning, web_toolkit_custom,
                   search_agent, task_agent, communication_tools, have_tools, loop_i,
                   loop_j, workforce, human_task, stdout, suspends, resumed, msgVars>>

\* os.makedirs(path, exist_ok): an existing directory is an error exactly
\* when exist_ok is false; an existing file is always one; a missing
\* directory is created unless the operating system refuses.
MakedirsOutcomes(kind, exist_ok) ==
    CASE kind = "dir"    -> IF exist_ok THEN {"ok"} ELSE {"raise"}
      [] kind = "file"   -> {"raise"}
      [] kind = "absent" -> {"ok", "raise"}

ExistOkFalse == FALSE
ExistOk == TRUE

\* Line 329.
MakeDirs ==
    /\ pc = "makedirs"
    /\ makedirs_arg' = WORKING_DIRECTORY
    /\ makedirs_found' = fs[abspath(cwd, WORKING_DIRECTORY)]
    /\ calls' = Append(calls, "os.makedirs")
    /\ LET target == abspath(cwd, WORKING_DIRECTORY)
       IN  \E outcome \in MakedirsOutcomes(fs[target], ExistOk) :
              \/ /\ outcome = "ok"
                 /\ fs' = [fs EXCEPT ![target] = "dir"]
                 /\ Return("hub")
              \/ /\ outcome = "raise"
                 /\ UNCHANGED fs
                 /\ Raise("os.makedirs")
    /\ UNCHANGED <<environ, cwd, run, WORKING_DIRECTORY, msg_toolkit, next_id,
                   model_backend_search, model_backend_planning, web_toolkit_custom,
                   search_agent, task_agent, communication_tools, have_tools, loop_i,
                   loop_j, workforce, human_task, stdout, suspends, resumed, msgVars>>

\* Line 332.
CreateHub ==
    /\ pc = "hub"
    /\ calls' = Append(calls, "AgentCommunicationToolkit")
    /\ \/ /\ msg_toolkit' = [exists |-> TRUE, max_message_history |-> 100,
                             agents |-> <<>>]
          /\ Return("model_search")
       \/ /\ UNCHANGED msg_toolkit
          /\ Raise("AgentCommunicationToolkit")
    /\ UNCHANGED <<environ, cwd, fs, run, WORKING_DIRECTORY, makedirs_arg,
                   makedirs_found, next_id,
                   model_backend_search, model_backend_planning, web_toolkit_custom,
                   search_agent, task_agent, communication_tools, have_tools, loop_i,
                   loop_j, workforce, human_task, stdout, suspends, resumed, msgVars>>

\* Lines 335-341: ModelFactory.create builds a new backend object.
CreateModelSearch ==
    /\ pc = "model_search"
    /\ calls' = Append(calls, "ModelFactory.create")
    /\ \/ /\ model_backend_search' = next_id
          /\ next_id' = next_id + 1
          /\ Return("model_planning")
       \/ /\ UNCHANGED <<model_backend_search, next_id>>
          /\ Raise("ModelFactory.create")
    /\ UNCHANGED <<environ, cwd, fs, run, WORKING_DIRECTORY, makedirs_arg,
                   makedirs_found, msg_toolkit,
                   model_backend_planning, web_toolkit_custom,
                   search_agent, task_agent, communication_tools, have_tools, loop_i,
                   loop_j, workforce, human_task, stdout, suspends, resumed, msgVars>>

\* Lines 343-349: a second call of ModelFactory.create, a second object.
CreateModelPlanning ==
    /\ pc = "model_planning"
    /\ calls' = Append(calls, "ModelFactory.create")
    /\ \/ /\ model_backend_planning' = next_id
          /\ next_id' = next_id + 1
          /\ Return("search_toolkit")
       \/ /\ UNCHANGED <<model_backend_planning, next_id>>
          /\ Raise("ModelFactory.create")
    /\ UNCHANGED <<environ, cwd, fs, run, WORKING_DIRECTORY, makedirs_arg,
                   makedirs_found, msg_toolkit,
                   model_backend_search, web_toolkit_custom,
                   search_agent, task_agent, communication_tools, have_tools, loop_i,
                   loop_j, workforce, human_task, stdout, suspends, resumed, msgVars>>

\* search_agent_factory, lines 104-137: the message integration, the session
\* id and the browser toolkit, which is given WORKING_DIRECTORY as cache_dir.
SearchToolkit ==
    /\ pc = "search_toolkit"
    /\ calls' = Append(calls, "HybridBrowserToolkit")
    /\ \/ /\ web_toolkit_custom' = [exists |-> TRUE, enabled_tools |-> custom_tools,
                                    cache_dir |-> WORKING_DIRECTORY]
          /\ Return("search_agent")
       \/ /\ UNCHANGED web_toolkit_custom
          /\ Raise("HybridBrowserToolkit")
    /\ UNCHANGED <<environ, cwd, fs, run, WORKING_DIRECTORY, makedirs_arg,
                   makedirs_found, msg_toolkit,
                   next_id, model_backend_search, model_backend_planning,
                   search_agent, task_agent, communication_tools, have_tools, loop_i,
                   loop_j, workforce, human_task, stdout, suspends, resumed, msgVars>>

\* search_agent_factory, lines 139-239, called at line 354 with
\* model_backend_search: the tool list, the prompt and the ChatAgent.
SearchAgentFactory ==
    /\ pc = "search_agent"
    /\ calls' = Append(calls, "search_agent_factory")
    /\ \/ /\ search_agent' = [exists |-> TRUE, role_name |-> "Search Agent",
                              model |-> model_backend_search,
                              tools |-> SearchTools(web_toolkit_custom),
                              prompt_workdir |-> WORKING_DIRECTORY]
          /\ Return("task_agent")
       \/ /\ UNCHANGED search_agent
          /\ Raise("search_agent_factory")
    /\ UNCHANGED <<environ, cwd, fs, run, WORKING_DIRECTORY, makedirs_arg,
                   makedirs_found, msg_toolkit,
                   next_id, model_backend_search, model_backend_planning,
                   web_toolkit_custom, task_agent, communication_tools, have_tools,
                   loop_i, loop_j, workforce, human_task, stdout, suspends, resumed,
                   msgVars>>

\* task_agent_factory, lines 250-324, called at line 355 with
\* model_backend_planning.
TaskAgentFactory ==
    /\ pc = "task_agent"
    /\ calls' = Append(calls, "task_agent_factory")
    /\ \/ /\ task_agent' = [exists |-> TRUE, role_name |-> "Task Agent",
                            model |-> model_backend_planning,
                            tools |-> PlanningTools,
                            prompt_workdir |-> WORKING_DIRECTORY]
          /\ Return("reg_search")
       \/ /\ UNCHANGED task_agent
          /\ Raise("task_agent_factory")
    /\ UNCHANGED <<environ, cwd, fs, run, WORKING_DIRECTORY, makedirs_arg,
                   makedirs_found, msg_toolkit,
                   next_id, model_backend_search, model_backend_planning,
                   web_toolkit_custom, search_agent, communication_tools, have_tools,
                   loop_i, loop_j, workforce, human_task, stdout, suspends, resumed,
                   msgVars>>

\* Line 358.
RegisterSearch ==
    /\ pc = "reg_search"
    /\ calls' = Append(calls, "register_agent(Search_Agent)")
    /\ \/ /\ msg_toolkit' = [msg_toolkit EXCEPT !.agents =
                                Append(@, [id |-> "Search_Agent", agent |-> "search_agent"])]
          /\ Return("reg_task")
       \/ /\ UNCHANGED msg_toolkit
          /\ Raise("register_agent(Search_Agent)")
    /\ UNCHANGED <<environ, cwd, fs, run, WORKING_DIRECTORY, makedirs_arg,
                   makedirs_found, next_id,
                   model_backend_search, model_backend_planning, web_toolkit_custom,
                   search_agent, task_agent, communication_tools, have_tools, loop_i,
                   loop_j, workforce, human_task, stdout, suspends, resumed, msgVars>>

\* Line 359.
RegisterPlanner ==
    /\ pc = "reg_task"
    /\ calls' = Append(calls, "register_agent(Task_Planner)")
    /\ \/ /\ msg_toolkit' = [msg_toolkit EXCEPT !.agents =
                                Append(@, [id |-> "Task_Planner", agent |-> "task_agent"])]
          /\ Return("get_tools")
       \/ /\ UNCHANGED msg_toolkit
          /\ Raise("register_agent(Task_Planner)")
    /\ UNCHANGED <<environ, cwd, fs, run, WORKING_DIRECTORY, makedirs_arg,
                   makedirs_found, next_id,
                   model_backend_search, model_backend_planning, web_toolkit_custom,
                   search_agent, task_agent, communication_tools, have_tools, loop_i,
                   loop_j, workforce, human_task, stdout, suspends, resumed, msgVars>>

\* Line 364: the agents the communication tools are added to, in order.
LoopAgentsPlannerOnly == <<"task_agent">>
LoopAgents == <<"task_agent", "search_agent">>

\* Line 363. An empty tool list makes both loops of lines 364-366 empty.
GetCommTools ==
    /\ pc = "get_tools"
    /\ calls' = Append(calls, "get_tools")
    /\ \/ \E ts \in SeqsNoDup(CommToolNames, MaxCommTools) :
             /\ communication_tools' = ts
             /\ have_tools' = TRUE
             /\ Return(IF ts = <<>> THEN "workforce" ELSE "add_tool")
       \/ /\ UNCHANGED <<communication_tools, have_tools>>
          /\ Raise("get_tools")
    /\ UNCHANGED <<environ, cwd, fs, run, WORKING_DIRECTORY, makedirs_arg,
                   makedirs_found, msg_toolkit,
                   next_id, model_backend_search, model_backend_planning,
                   web_toolkit_custom, search_agent, task_agent, loop_i, loop_j,
                   workforce, human_task, stdout, suspends, resumed, msgVars>>

\* Lines 364-366: one agent.add_tool(tool), then the loops advance; main()
\* leaves them after the last tool of the last agent.
AddTool ==
    /\ pc = "add_tool"
    /\ calls' = Append(calls, "add_tool")
    /\ LET agent == LoopAgents[loop_i]
           tool == communication_tools[loop_j]
           last_tool == loop_j = Len(communication_tools)
           last_agent == loop_i = Len(LoopAgents)
       IN  \/ /\ IF agent = "task_agent"
                 THEN /\ task_agent' = [task_agent EXCEPT !.tools = Append(@, tool)]
                      /\ UNCHANGED search_agent
                 ELSE /\ search_agent' = [search_agent EXCEPT !.tools = Append(@, tool)]
                      /\ UNCHANGED task_agent
              /\ loop_j' = IF last_tool THEN 1 ELSE loop_j + 1
              /\ loop_i' = IF last_tool THEN loop_i + 1 ELSE loop_i
              /\ Return(IF last_tool /\ last_agent THEN "workforce" ELSE "add_tool")
           \/ /\ UNCHANGED <<task_agent, search_agent, loop_i, loop_j>>
              /\ Raise("add_tool")
    /\ UNCHANGED <<environ, cwd, fs, run, WORKING_DIRECTORY, makedirs_arg,
                   makedirs_found, msg_toolkit,
                   next_id, model_backend_search, model_backend_planning,
                   web_toolkit_custom, communication_tools, have_tools,
                   workforce, human_task, stdout, suspends, resumed, msgVars>>

\* Lines 369-376.
CreateWorkforce ==
    /\ pc = "workforce"
    /\ calls' = Append(calls, "Workforce")
    /\ \/ /\ workforce' = [exists |-> TRUE, task_agent |-> "task_agent",
                           workers |-> <<>>, submitted |-> <<>>, dumps |-> <<>>]
          /\ Return("add_worker")
       \/ /\ UNCHANGED workforce
          /\ Raise("Workforce")
    /\ UNCHANGED <<environ, cwd, fs, run, WORKING_DIRECTORY, makedirs_arg,
                   makedirs_found, msg_toolkit,
                   next_id, model_backend_search, model_backend_planning,
                   web_toolkit_custom, search_agent, task_agent, communication_tools,
                   have_tools, loop_i, loop_j, human_task, stdout, suspends, resumed,
                   msgVars>>

AddWorkerAlsoPlanner ==
    /\ pc = "add_worker"
    /\ calls' = Append(calls, "add_single_agent_worker")
    /\ \/ /\ workforce' = [workforce EXCEPT !.workers = @ \o <<"search_agent", "task_agent">>]
          /\ Return("task")
       \/ /\ UNCHANGED workforce
          /\ Raise("add_single_agent_worker")
    /\ UNCHANGED <<environ, cwd, fs, run, WORKING_DIRECTORY, makedirs_arg,
                   makedirs_found, msg_toolkit,
                   next_id, model_backend_search, model_backend_planning,
                   web_toolkit_custom, search_agent, task_agent, communication_tools,
                   have_tools, loop_i, loop_j, human_task, stdout, suspends, resumed,
                   msgVars>>

\* Lines 378-382.
AddWorker ==
    /\ pc = "add_worker"
    /\ calls' = Append(calls, "add_single_agent_worker")
    /\ \/ /\ workforce' = [workforce EXCEPT !.workers = Append(@, "search_agent")]
          /\ Return("task")
       \/ /\ UNCHANGED workforce
          /\ Raise("add_single_agent_worker")
    /\ UNCHANGED <<environ, cwd, fs, run, WORKING_DIRECTORY, makedirs_arg,
                   makedirs_found, msg_toolkit,
                   next_id, model_backend_search, model_backend_planning,
                   web_toolkit_custom, search_agent, task_agent, communication_tools,
                   have_tools, loop_i, loop_j, human_task, stdout, suspends, resumed,
                   msgVars>>

\* Lines 385-393.
CreateTask ==
    /\ pc = "task"
    /\ calls' = Append(calls, "Task")
    /\ \/ /\ human_task' = [exists |-> TRUE, id |-> "0"]
          /\ Return("submit")
       \/ /\ UNCHANGED human_task
          /\ Raise("Task")
    /\ UNCHANGED <<environ, cwd, fs, run, WORKING_DIRECTORY, makedirs_arg,
                   makedirs_found, msg_toolkit,
                   next_id, model_backend_search, model_backend_planning,
                   web_toolkit_custom, search_agent, task_agent, communication_tools,
                   have_tools, loop_i, loop_j, workforce, stdout, suspends, resumed,
                   msgVars>>

\* Submission moved up, ahead of the registration of the worker.
SubmitBeforeWorker ==
    /\ pc = "add_worker"
    /\ calls' = Append(calls, "process_task_async")
    /\ workforce' = [workforce EXCEPT !.submitted = Append(@, "0")]
    /\ suspends' = suspends + 1
    /\ Return("awaiting")
    /\ UNCHANGED <<environ, cwd, fs, run, WORKING_DIRECTORY, makedirs_arg,
                   makedirs_found, msg_toolkit,
                   next_id, model_backend_search, model_backend_planning,
                   web_toolkit_custom, search_agent, task_agent, communication_tools,
                   have_tools, loop_i, loop_j, human_task, stdout, resumed, msgVars>>

\* process_task_async called without await: main() goes on at once.
SubmitNoAwait ==
    /\ pc = "submit"
    /\ calls' = Append(calls, "process_task_async")
    /\ workforce' = [workforce EXCEPT !.submitted = Append(@, human_task.id)]
    /\ Return("log_tree")
    /\ UNCHANGED <<environ, cwd, fs, run, WORKING_DIRECTORY, makedirs_arg,
                   makedirs_found, msg_toolkit,
                   next_id, model_backend_search, model_backend_planning,
                   web_toolkit_custom, search_agent, task_agent, communication_tools,
                   have_tools, loop_i, loop_j, human_task, stdout, suspends, resumed,
                   msgVars>>

\* Line 396, first half: process_task_async(human_task) is called and main()
\* suspends on the coroutine it returns.
Submit ==
    /\ pc = "submit"
    /\ calls' = Append(calls, "process_task_async")
    /\ workforce' = [workforce EXCEPT !.submitted = Append(@, human_task.id)]
    /\ suspends' = suspends + 1
    /\ Return("awaiting")
    /\ UNCHANGED <<environ, cwd, fs, run, WORKING_DIRECTORY, makedirs_arg,
                   makedirs_found, msg_toolkit,
                   next_id, model_backend_search, model_backend_planning,
                   web_toolkit_custom, search_agent, task_agent, communication_tools,
                   have_tools, loop_i, loop_j, human_task, stdout, resumed, msgVars>>

\* Line 396, second half: the await completes, with a result or an exception.
Resume ==
    /\ pc = "awaiting"
    /\ resumed' = resumed + 1
    /\ \/ Return("log_tree")
       \/ Raise("process_task_async")
    /\ UNCHANGED <<environ, cwd, fs, run, WORKING_DIRECTORY, makedirs_arg,
                   makedirs_found, msg_toolkit,
                   next_id, model_backend_search, model_backend_planning,
                   web_toolkit_custom, search_agent, task_agent, communication_tools,
                   have_tools, loop_i, loop_j, workforce, human_task, calls, stdout,
                   suspends, msgVars>>

\* Lines 399-400: the header is printed before the getter is called.
LogTree ==
    /\ pc = "log_tree"
    /\ calls' = Append(calls, "get_workforce_log_tree")
    /\ \/ /\ stdout' = stdout \o <<"--- Workforce Log Tree ---", "log tree">>
          /\ Return("kpis")
       \/ /\ stdout' = Append(stdout, "--- Workforce Log Tree ---")
          /\ Raise("get_workforce_log_tree")
    /\ UNCHANGED <<environ, cwd, fs, run, WORKING_DIRECTORY, makedirs_arg,
                   makedirs_found, msg_toolkit,
                   next_id, model_backend_search, model_backend_planning,
                   web_toolkit_custom, search_agent, task_agent, communication_tools,
                   have_tools, loop_i, loop_j, workforce, human_task, suspends,
                   resumed, msgVars>>

\* Lines 402-405: the header, the getter, then one line per entry.
Kpis ==
    /\ pc = "kpis"
    /\ calls' = Append(calls, "get_workforce_kpis")
    /\ \/ \E n \in 0..MaxKpis :
             /\ stdout' = stdout \o <<"--- Workforce KPIs ---">>
                                 \o [k \in 1..n |-> "key: value"]
             /\ Return("dump")
       \/ /\ stdout' = Append(stdout, "--- Workforce KPIs ---")
          /\ Raise("get_workforce_kpis")
    /\ UNCHANGED <<environ, cwd, fs, run, WORKING_DIRECTORY, makedirs_arg,
                   makedirs_found, msg_toolkit,
                   next_id, model_backend_search, model_backend_planning,
                   web_toolkit_custom, search_agent, task_agent, communication_tools,
                   have_tools, loop_i, loop_j, workforce, human_task, suspends,
                   resumed, msgVars>>

\* Lines 407-410.
Dump ==
    /\ pc = "dump"
    /\ calls' = Append(calls, "dump_workforce_logs")
    /\ \/ /\ workforce' = [workforce EXCEPT !.dumps = Append(@, "eigent_logs.json")]
          /\ stdout' = stdout \o <<"--- Dumping Workforce Logs ---", "Logs dumped.">>
          /\ Return("done")
       \/ /\ UNCHANGED workforce
          /\ stdout' = Append(stdout, "--- Dumping Workforce Logs ---")
          /\ Raise("dump_workforce_logs")
    /\ UNCHANGED <<environ, cwd, fs, run, WORKING_DIRECTORY, makedirs_arg,
                   makedirs_found, msg_toolkit,
                   next_id, model_backend_search, model_backend_planning,
                   web_toolkit_custom, search_agent, task_agent, communication_tools,
                   have_tools, loop_i, loop_j, human_task, suspends, resumed, msgVars>>

\* Line 414 again: the script is started once more, in a new process, on the
\* file system the earlier runs left behind.
RunAgain ==
    /\ pc \in {"done", "failed"}
    /\ run < MaxRuns
    /\ run' = run + 1
    /\ environ' \in Environs
    /\ cwd' \in Cwds
    /\ pc' = "import"
    /\ error' = ""
    /\ WORKING_DIRECTORY' = <<>>
    /\ makedirs_arg' = <<>>
    /\ makedirs_found' = ""
    /\ msg_toolkit' = NoHub
    /\ next_id' = 1
    /\ model_backend_search' = 0
    /\ model_backend_planning' = 0
    /\ web_toolkit_custom' = NoToolkit
    /\ search_agent' = NoAgent
    /\ task_agent' = NoAgent
    /\ communication_tools' = <<>>
    /\ have_tools' = FALSE
    /\ loop_i' = 1
    /\ loop_j' = 1
    /\ workforce' = NoWorkforce
    /\ human_task' = NoTask
    /\ calls' = <<>>
    /\ stdout' = <<>>
    /\ suspends' = 0
    /\ resumed' = 0
    /\ UNCHANGED <<fs, msgVars>>

Next ==
    \/ ReadEnviron
    \/ MakeDirs
    \/ CreateHub
    \/ CreateModelSearch
    \/ CreateModelPlanning
    \/ SearchToolkit
    \/ SearchAgentFactory
    \/ TaskAgentFactory
    \/ RegisterSearch
    \/ RegisterPlanner
    \/ GetCommTools
    \/ AddTool
    \/ CreateWorkforce
    \/ AddWorker
    \/ CreateTask
    \/ Submit
    \/ Resume
    \/ LogTree
    \/ Kpis
    \/ Dump
    \/ RunAgain

Spec == Init /\ [][Next]_vars

-----------------------------------------------------------------------------
(* send_message_to_user, lines 44-93. A string is a sequence of characters; *)
(* the literal parts of the f-strings are single tokens.                    *)

MsgChars == {"a", "b"}

RECURSIVE Strs(_)
Strs(n) ==
    IF n = 0 THEN { <<>> }
    ELSE Strs(n - 1) \cup { Append(s, c) : s \in Strs(n - 1), c \in MsgChars }

MsgInputs == [message_title : Strs(MaxLen), message_description : Strs(MaxLen),
              message_attachment : Strs(MaxLen)]

\* Line 83, and lines 84-85 when the attachment is a non-empty string.
MessagePrintsAlways(in) ==
    << <<"\nAgent Message:\n">> \o in.message_title \o <<" ", "\n">>
           \o in.message_description \o <<"\n">>,
       in.message_attachment >>

MessagePrints(in) ==
    << <<"\nAgent Message:\n">> \o in.message_title \o <<" ", "\n">>
           \o in.message_description \o <<"\n">> >>
    \o (IF in.message_attachment # <<>> THEN << in.message_attachment >> ELSE <<>>)

\* Lines 90-93.
MessageReturn(in) ==
    <<"Message successfully sent to user:", " ", "'">> \o in.message_title \o <<" ">>
        \o in.message_description \o <<" ">> \o in.message_attachment \o <<"'">>

InitMsg ==
    /\ environ = <<>>
    /\ cwd = <<Sep>>
    /\ fs = [p \in FsPaths |-> "absent"]
    /\ run = 1
    /\ InitProcess
    /\ msg_pc = "ready"
    /\ msg_in \in MsgInputs
    /\ msg_ret = <<>>
    /\ msg_printed = <<>>
    /\ msg_reads = 0

\* One call of send_message_to_user: it prints, logs and returns; it reads
\* nothing.
SendMessageToUser ==
    /\ msg_pc = "ready"
    /\ msg_printed' = MessagePrints(msg_in)
    /\ msg_ret' = MessageReturn(msg_in)
    /\ msg_pc' = "returned"
    /\ UNCHANGED <<msg_in, msg_reads, mainVars>>

\* The tool is called again, with other arguments.
CallAgain ==
    /\ msg_pc = "returned"
    /\ msg_in' \in MsgInputs
    /\ msg_ret' = <<>>
    /\ msg_printed' = <<>>
    /\ msg_pc' = "ready"
    /\ UNCHANGED <<msg_reads, mainVars>>

NextMsg == SendMessageToUser \/ CallAgain

SpecMsg == InitMsg /\ [][NextMsg]_vars

-----------------------------------------------------------------------------
(* Vocabulary of the properties. *)

\* Call b has been made only after call a had been made.
Before(a, b) ==
    Pos(calls, b) # 0 => (Pos(calls, a) # 0 /\ Pos(calls, a) < Pos(calls, b))

\* The task has been handed to process_task_async in this run.
Submitted == workforce.submitted # <<>>

\* The run is over.
Ended == pc \in {"done", "failed"}

Contains(s, sub) ==
    \E i \in 0..(Len(s) - Len(sub)) : SubSeq(s, i + 1, i + Len(sub)) = sub

HubIds == { msg_toolkit.agents[i].id : i \in 1..Len(msg_toolkit.agents) }

\* The steps every version of claim C1 orders alike: the environment is read
\* first, registration comes before the workforce, the worker before the
\* task, the getters last.
CommonOrder ==
    /\ Before("os.environ.get", "AgentCommunicationToolkit")
    /\ Before("os.environ.get", "search_agent_factory")
    /\ Before("search_agent_factory", "task_agent_factory")
    /\ Before("register_agent(Search_Agent)", "register_agent(Task_Planner)")
    /\ Before("register_agent(Task_Planner)", "Workforce")
    /\ Before("Workforce", "add_single_agent_worker")
    /\ Before("add_single_agent_worker", "process_task_async")
    /\ Before("process_task_async", "get_workforce_log_tree")
    /\ Before("get_workforce_log_tree", "get_workforce_kpis")
    /\ Before("get_workforce_kpis", "dump_workforce_logs")
    /\ Submitted => workforce.workers # <<>>

-----------------------------------------------------------------------------
(* Claim C1. *)

\* C1, as stated: the steps of main happen in the order environment, agents,
\* hub construction and registration, workforce and worker, submission,
\* logs; the hub is never constructed before both agents exist.
C1_HubAfterAgents ==
    /\ CommonOrder
    /\ Before("task_agent_factory", "AgentCommunicationToolkit")
    /\ Before("AgentCommunicationToolkit", "register_agent(Search_Agent)")
    /\ msg_toolkit.exists => (search_agent.exists /\ task_agent.exists)

\* C1, amended: the order is environment, hub construction, agents,
\* registration of both agents with the hub, workforce and worker,
\* submission, logs. The hub exists before either agent does, no agent is
\* registered with it before both agents exist, and the task is never
\* submitted before the worker is registered.
C1_HubBeforeAgents ==
    /\ CommonOrder
    /\ Before("AgentCommunicationToolkit", "search_agent_factory")
    /\ Before("task_agent_factory", "register_agent(Search_Agent)")
    /\ search_agent.exists => msg_toolkit.exists
    /\ msg_toolkit.agents # <<>> => (search_agent.exists /\ task_agent.exists)

C1_Witness ==
    /\ pc = "done"
    /\ Pos(calls, "AgentCommunicationToolkit") < Pos(calls, "search_agent_factory")
    /\ Pos(calls, "dump_workforce_logs") = Len(calls)

-----------------------------------------------------------------------------
(* Claim C2. *)

\* Where WORKING_DIRECTORY is used: os.makedirs, cache_dir, both prompts.
WorkdirUsedEverywhere ==
    /\ makedirs_found # "" => makedirs_arg = WORKING_DIRECTORY
    /\ web_toolkit_custom.exists => web_toolkit_custom.cache_dir = WORKING_DIRECTORY
    /\ search_agent.exists => search_agent.prompt_workdir = WORKING_DIRECTORY
    /\ task_agent.exists => task_agent.prompt_workdir = WORKING_DIRECTORY

\* The path of working_dir under the current directory, written out.
DefaultUnderCwd ==
    IF cwd = <<Sep>> THEN <<Sep, "working_dir">> ELSE cwd \o <<Sep, "working_dir">>

\* C2, as stated: WORKING_DIRECTORY is the value of CAMEL_WORKDIR whenever
\* the variable is set, the default only when it is not set, and that value
\* is what main creates and what the toolkit and the prompts are given.
C2_ValueWheneverSet ==
    pc # "import" =>
        /\ environ # <<>> => WORKING_DIRECTORY = environ[1]
        /\ environ = <<>> => WORKING_DIRECTORY = DefaultUnderCwd
        /\ WorkdirUsedEverywhere

\* C2, amended: WORKING_DIRECTORY is the value of CAMEL_WORKDIR whenever the
\* variable is set to a non-empty string, and is the absolute path of
\* working_dir under the current directory when it is not set or is set to
\* the empty string; the same value is what main creates and what the
\* toolkit and the prompts are given.
C2_ValueWhenNonEmpty ==
    pc # "import" =>
        /\ (environ # <<>> /\ environ[1] # <<>>) => WORKING_DIRECTORY = environ[1]
        /\ (environ = <<>> \/ environ[1] = <<>>) => WORKING_DIRECTORY = DefaultUnderCwd
        /\ WorkdirUsedEverywhere

C2_Witness ==
    /\ environ = << <<>> >>
    /\ cwd = <<Sep, "home">>
    /\ WORKING_DIRECTORY = <<Sep, "home", Sep, "working_dir">>
    /\ search_agent.exists
    /\ task_agent.exists
    /\ makedirs_found # ""

-----------------------------------------------------------------------------
(* Claim C3. *)

NoLogsProduced ==
    /\ stdout = <<>>
    /\ workforce.dumps = <<>>
    /\ "get_workforce_log_tree" \notin Range(calls)
    /\ "get_workforce_kpis" \notin Range(calls)
    /\ "dump_workforce_logs" \notin Range(calls)

\* C3: a call of main that fails ends main with that failure, and main makes
\* no further step; when process_task_async fails, nothing is printed and
\* dump_workforce_logs is not called.
C3_FailurePropagates ==
    /\ [](error # "" => (pc = "failed" /\ error = Last(calls)))
    /\ [](error = "process_task_async" => NoLogsProduced)
    /\ [][(error # "" /\ run' = run) => UNCHANGED mainVars]_vars

C3_Witness ==
    /\ error = "process_task_async"
    /\ pc = "failed"
    /\ resumed = 1

-----------------------------------------------------------------------------
(* Claim C4. *)

\* What claim C4 says of the await and of the three log calls.
OneAwaitThenLogs ==
    /\ Count(calls, "process_task_async") <= 1
    /\ workforce.submitted \in { <<>>, <<"0">> }
    /\ suspends = Count(calls, "process_task_async")
    /\ resumed <= suspends
    /\ (suspends > resumed) <=> (pc = "awaiting")
    /\ Count(calls, "get_workforce_log_tree") <= 1
    /\ Count(calls, "get_workforce_kpis") <= 1
    /\ Count(calls, "dump_workforce_logs") <= 1
    /\ Before("get_workforce_log_tree", "get_workforce_kpis")
    /\ Before("get_workforce_kpis", "dump_workforce_logs")
    /\ "get_workforce_log_tree" \in Range(calls) => resumed = 1

\* C4, as stated: in every run of main process_task_async is invoked exactly
\* once, with task '0', at the only await; the three log calls come at most
\* once each, in order, after it.
C4_ExactlyOnceEveryRun ==
    /\ OneAwaitThenLogs
    /\ Ended => Count(calls, "process_task_async") = 1

\* C4, amended: in every run of main process_task_async is invoked at most
\* once, and exactly once in every run in which no earlier call fails, with
\* task '0', at the only await; the three log calls come at most once each,
\* in order, after it.
C4_OnceUnlessEarlierFailure ==
    /\ OneAwaitThenLogs
    /\ (pc \in {"awaiting", "log_tree", "kpis", "dump", "done"} \/
        error \in {"process_task_async", "get_workforce_log_tree",
                   "get_workforce_kpis", "dump_workforce_logs"})
          => (Count(calls, "process_task_async") = 1 /\ workforce.submitted = <<"0">>)
    /\ (Ended /\ Count(calls, "process_task_async") = 0)
          => (error # "" /\ error = Last(calls))

C4_Witness ==
    /\ pc = "done"
    /\ Count(calls, "process_task_async") = 1
    /\ Count(calls, "dump_workforce_logs") = 1
    /\ suspends = 1

-----------------------------------------------------------------------------
(* Claim C5. *)

\* C5: send_message_to_user reads nothing and returns a confirmation that
\* begins with "Message successfully sent to user:" and contains the title,
\* the description and the attachment; it prints the title and the
\* description always, and the attachment exactly when it is non-empty.
C5_OneWayMessage ==
    msg_pc = "returned" =>
        /\ msg_reads = 0
        /\ Len(msg_ret) >= 1
        /\ Head(msg_ret) = "Message successfully sent to user:"
        /\ Contains(msg_ret, msg_in.message_title)
        /\ Contains(msg_ret, msg_in.message_description)
        /\ Contains(msg_ret, msg_in.message_attachment)
        /\ Contains(msg_ret, msg_in.message_title \o <<" ">> \o msg_in.message_description
                                \o <<" ">> \o msg_in.message_attachment)
        /\ Len(msg_printed) >= 1
        /\ Contains(msg_printed[1], msg_in.message_title)
        /\ Contains(msg_printed[1], msg_in.message_description)
        /\ (msg_in.message_attachment # <<>>) <=> (Len(msg_printed) = 2)
        /\ (msg_in.message_attachment = <<>>) <=> (Len(msg_printed) = 1)
        /\ Len(msg_printed) = 2 => msg_printed[2] = msg_in.message_attachment

C5_Witness ==
    /\ msg_pc = "returned"
    /\ msg_in.message_attachment = <<>>
    /\ msg_in.message_title = <<"a", "b">>
    /\ msg_in.message_description = <<"b">>
    /\ Len(msg_printed) = 1

-----------------------------------------------------------------------------
(* Claim C6. *)

\* C6: once the task is submitted the workforce has exactly one worker, the
\* search agent; the planning agent is its task_agent and never a worker;
\* the workers do not change afterwards.
C6_OneWorker ==
    /\ "task_agent" \notin Range(workforce.workers)
    /\ Submitted =>
          /\ workforce.workers = <<"search_agent">>
          /\ workforce.task_agent = "task_agent"
          /\ search_agent.exists /\ task_agent.exists

C6_Witness ==
    /\ pc = "done"
    /\ Submitted
    /\ workforce.workers = <<"search_agent">>

-----------------------------------------------------------------------------
(* Claim C7. *)

\* C7: the communication tools are taken from the hub only after both
\* "Search_Agent" and "Task_Planner" are registered with it, and when the
\* task is submitted every one of them has been added to both agents.
C7_ToolsOnBothAgents ==
    /\ have_tools => {"Search_Agent", "Task_Planner"} \subseteq HubIds
    /\ Before("register_agent(Task_Planner)", "get_tools")
    /\ Submitted =>
          /\ have_tools
          /\ Range(communication_tools) \subseteq Range(search_agent.tools)
          /\ Range(communication_tools) \subseteq Range(task_agent.tools)

C7_Witness ==
    /\ pc = "awaiting"
    /\ Len(communication_tools) = MaxCommTools
    /\ Range(communication_tools) \subseteq Range(search_agent.tools)

-----------------------------------------------------------------------------
(* Claim C8. *)

\* C8: the search agent and the planning agent are constructed with the
\* same model backend instance.
C8_SingleBackend ==
    (search_agent.exists /\ task_agent.exists) => search_agent.model = task_agent.model

-----------------------------------------------------------------------------
(* Claim C9. *)

\* C9: every tool the search agent's prompt names is among the tools the
\* search agent has when the task is submitted.
C9_PromptToolsGiven ==
    Submitted => SearchPromptTools \subseteq Range(search_agent.tools)

-----------------------------------------------------------------------------
(* Claim C10. *)

\* C10: the working directory is created before the browser toolkit that
\* caches in it is constructed and before the task is submitted, and
\* os.makedirs does not fail when the directory is already there.
C10_DirectoryFirst ==
    /\ Before("os.makedirs", "HybridBrowserToolkit")
    /\ Before("os.makedirs", "process_task_async")
    /\ web_toolkit_custom.exists =>
          fs[abspath(cwd, web_toolkit_custom.cache_dir)] = "dir"
    /\ Submitted => fs[abspath(cwd, WORKING_DIRECTORY)] = "dir"
    /\ makedirs_found = "dir" => error # "os.makedirs"

C10_Witness ==
    /\ run = 2
    /\ makedirs_found = "dir"
    /\ web_toolkit_custom.exists
    /\ Submitted

====
